---- MODULE Spec2Model ----
(***************************************************************************)
(* Model of hydra-s3-upload (src/main.go): main's five sequential stages   *)
(* (create sink, dirToTar, requestCreds, Seek, uploadFile) and the         *)
(* streaming packager dirToTar with its tar and gzip writers.              *)
(*                                                                         *)
(* Bytes are abstracted to tokens: the sink is the sequence of tokens the  *)
(* gzip writer managed to write to the file (gzip header, tar header of an *)
(* entry, one content byte of an entry, tar end-of-archive marker, gzip    *)
(* trailer).  Every I/O call may fail; the failure is chosen with \E.      *)
(***************************************************************************)
EXTENDS Integers, Sequences, FiniteSets

\* Largest size a file reports at lstat time (info.Size()).
MaxSize == 2

\* Most bytes one file can deliver while it is copied: one more than MaxSize,
\* so a file can have grown as well as shrunk since the walk's lstat.
MaxRead == MaxSize + 1

VARIABLES
    pc,          \* position of the single thread in main / dirToTar / the walk callback
    tree,        \* the must-gather directory tree (set of nodes)
    order,       \* the sequence of nodes filepath.Walk visits
    idx,         \* index in order of the node the walk is at
    cur,         \* callback locals: relPath, the header size, bytes read, err
    openFiles,   \* source files currently open (os.Open'ed, not yet Close'd)
    opens,       \* per relative path: how often it was opened
    closes,      \* per relative path: how often it was closed
    dir,         \* root directory handle: opens / closes counters
    tw,          \* tar.Writer: err, nb (bytes of the current entry still owed), closes, closeErr
    gz,          \* gzip.Writer: err, wroteHeader, closes, closeErr, made
    sink,        \* tokens that reached the file f
    fileOff,     \* read/write offset of f
    dtErr,       \* dirToTar's return value ("unset" until it returns)
    resp,        \* what the credential endpoint did
    creds,       \* the decoded credsResponse (NoCreds until decoded)
    stageErr,    \* for each stage of main that returned: its err
    log,         \* stages of main in the order they were started
    uploadCalls, \* invocations of creds.uploadFile: the creds and f's offset
    s3Calls,     \* invocations of s3manager Upload: bucket, key, region, credentials
    exitCode     \* process exit status (-1 while running)

vars == <<pc, tree, order, idx, cur, openFiles, opens, closes, dir, tw, gz, sink,
          fileOff, dtErr, resp, creds, stageErr, log, uploadCalls, s3Calls, exitCode>>

----------------------------------------------------------------------------
\* The directory tree.  A path is the sequence of its names below the root.

dirPath == <<"must-gather">>

RootNode == [path |-> <<>>, isDir |-> TRUE]

Universe ==
    { RootNode,
      [path |-> <<"a">>,        isDir |-> FALSE],
      [path |-> <<"sub">>,      isDir |-> TRUE],
      [path |-> <<"sub", "b">>, isDir |-> FALSE] }

FilePaths == { n.path : n \in { m \in Universe : ~m.isDir } }

Parent(p) == SubSeq(p, 1, Len(p) - 1)

\* A tree holds the root, and with every node its parent directory.
IsTree(t) ==
    /\ RootNode \in t
    /\ \A n \in t : n.path # <<>> =>
          \E d \in t : d.isDir /\ d.path = Parent(n.path)

Trees == { t \in SUBSET Universe : IsTree(t) }

\* Position of a name in the lexical order ReadDirNames sorts by.
NameRank(s) == CASE s = "a" -> 1 [] s = "b" -> 2 [] s = "sub" -> 3 [] OTHER -> 4

Children(t, p) == { n \in t : n.path # <<>> /\ Parent(n.path) = p }

RECURSIVE SortNodes(_)
SortNodes(S) ==
    IF S = {} THEN <<>>
    ELSE LET first == CHOOSE n \in S :
                         \A m \in S : NameRank(n.path[Len(n.path)]) <= NameRank(m.path[Len(m.path)])
         IN  <<first>> \o SortNodes(S \ {first})

\* filepath.Walk: the node itself, then (for a directory) its children in
\* lexical order, each walked recursively.
RECURSIVE WalkFrom(_, _), WalkList(_, _)
WalkFrom(t, n) ==
    <<n>> \o (IF n.isDir THEN WalkList(t, SortNodes(Children(t, n.path))) ELSE <<>>)
WalkList(t, ns) ==
    IF ns = <<>> THEN <<>> ELSE WalkFrom(t, Head(ns)) \o WalkList(t, Tail(ns))

WalkOrder(t) == WalkFrom(t, RootNode)

FullPath(n) == dirPath \o n.path

\* filepath.Rel(base, target): target relative to base; fails when target is
\* not below base.
Rel(base, target) ==
    IF Len(target) >= Len(base) /\ SubSeq(target, 1, Len(base)) = base
    THEN [ok |-> TRUE,  path |-> SubSeq(target, Len(base) + 1, Len(target))]
    ELSE [ok |-> FALSE, path |-> <<>>]

----------------------------------------------------------------------------
\* Tokens of the sink.

Tok(kind, name, size) == [t |-> kind, name |-> name, size |-> size]
GzHeader  == Tok("gzhdr", <<>>, 0)
GzTrailer == Tok("gztrl", <<>>, 0)
EndOfArchive == Tok("eoa", <<>>, 0)
HeaderTok(name, size) == Tok("hdr", name, size)
ByteTok(name) == Tok("byte", name, 0)

\* gzip.Writer.Write(toks) with the underlying file write succeeding (ok) or
\* failing: a sticky error refuses the write, the first write puts the gzip
\* header in front.
GzWrite(g, s, toks, ok) ==
    IF g.err THEN [gz |-> g, sink |-> s, ok |-> FALSE]
    ELSE IF ~ok THEN [gz |-> [g EXCEPT !.err = TRUE], sink |-> s, ok |-> FALSE]
    ELSE [gz |-> [g EXCEPT !.wroteHeader = TRUE],
          sink |-> s \o (IF g.wroteHeader THEN <<>> ELSE <<GzHeader>>) \o toks,
          ok |-> TRUE]

\* tar.Writer.Flush: refuses when an error is pending or the current entry is
\* still owed bytes, else writes the entry's padding through the gzip writer.
TarFlush(t, g, s, ok) ==
    IF t.err # "nil" THEN [err |-> t.err, tw |-> t, gz |-> g, sink |-> s]
    ELSE IF t.nb > 0 THEN [err |-> "missed", tw |-> t, gz |-> g, sink |-> s]
    ELSE LET w == GzWrite(g, s, <<>>, ok)
         IN  IF w.ok THEN [err |-> "nil", tw |-> t, gz |-> w.gz, sink |-> w.sink]
             ELSE [err |-> "write", tw |-> [t EXCEPT !.err = "write"],
                   gz |-> w.gz, sink |-> w.sink]

\* tar.Writer.WriteHeader: Flush, then the header block.
TarWriteHeader(t, g, s, name, size, okPad, okHdr) ==
    LET f == TarFlush(t, g, s, okPad)
    IN  IF f.err # "nil" THEN f
        ELSE LET w == GzWrite(f.gz, f.sink, <<HeaderTok(name, size)>>, okHdr)
             IN  IF w.ok
                 THEN [err |-> "nil", tw |-> [f.tw EXCEPT !.nb = size],
                       gz |-> w.gz, sink |-> w.sink]
                 ELSE [err |-> "write", tw |-> [f.tw EXCEPT !.err = "write"],
                       gz |-> w.gz, sink |-> w.sink]

\* tar.Writer.Write of one content byte: ErrWriteTooLong (not sticky) once the
\* entry has all the bytes its header announced.
TarWrite(t, g, s, name, ok) ==
    IF t.err # "nil" THEN [err |-> t.err, tw |-> t, gz |-> g, sink |-> s]
    ELSE IF t.nb = 0 THEN [err |-> "toolong", tw |-> t, gz |-> g, sink |-> s]
    ELSE LET w == GzWrite(g, s, <<ByteTok(name)>>, ok)
         IN  IF w.ok
             THEN [err |-> "nil", tw |-> [t EXCEPT !.nb = @ - 1],
                   gz |-> w.gz, sink |-> w.sink]
             ELSE [err |-> "write", tw |-> [t EXCEPT !.err = "write"],
                   gz |-> w.gz, sink |-> w.sink]

\* tar.Writer.Close: returns a pending error as it is; else Flush and, when
\* that succeeded, the end-of-archive marker; the writer is closed either way.
TarClose(t, g, s, okPad, okEoa) ==
    IF t.err = "closed" THEN [err |-> "nil", tw |-> t, gz |-> g, sink |-> s]
    ELSE IF t.err # "nil" THEN [err |-> t.err, tw |-> t, gz |-> g, sink |-> s]
    ELSE LET f == TarFlush(t, g, s, okPad)
             w == GzWrite(f.gz, f.sink, <<EndOfArchive>>, okEoa)
         IN  IF f.err # "nil"
             THEN [err |-> f.err, tw |-> [f.tw EXCEPT !.err = "closed"],
                   gz |-> f.gz, sink |-> f.sink]
             ELSE [err |-> IF w.ok THEN "nil" ELSE "write",
                   tw |-> [f.tw EXCEPT !.err = "closed"],
                   gz |-> w.gz, sink |-> w.sink]

\* gzip.Writer.Close: returns a pending error as it is; else the header if no
\* write has put it yet, then the flushed data's trailer.
GzClose(g, s, okHdr, okTrl) ==
    IF g.err THEN [err |-> "write", gz |-> g, sink |-> s]
    ELSE LET h == GzWrite(g, s, <<>>, okHdr)
             w == GzWrite(h.gz, h.sink, <<GzTrailer>>, okTrl)
         IN  IF ~h.ok THEN [err |-> "write", gz |-> h.gz, sink |-> h.sink]
             ELSE [err |-> IF w.ok THEN "nil" ELSE "write", gz |-> w.gz, sink |-> w.sink]

NoCur == [relPath |-> <<>>, size |-> 0, read |-> 0, err |-> "nil"]

----------------------------------------------------------------------------
\* main's stages and the credential endpoint.

Stages == <<"create", "archive", "creds", "seek", "upload">>

\* klog.Fatalln ends the process with this status.
FatalStatus == 255

NoCreds == [bucketName |-> "", secretKey |-> "", accessKey |-> "",
            sessionToken |-> "", region |-> "", key |-> ""]

CredSet ==
    { [bucketName |-> "b1", secretKey |-> "s1", accessKey |-> "a1",
       sessionToken |-> "t1", region |-> "r1", key |-> "k1"],
      [bucketName |-> "b2", secretKey |-> "s2", accessKey |-> "a2",
       sessionToken |-> "t2", region |-> "r2", key |-> "k2"] }

\* What the endpoint can do: the request cannot be built, the transport fails,
\* or a response arrives with a status and a body that is JSON of a
\* credsResponse or is not JSON.
Responses ==
    { [kind |-> k, status |-> 0, json |-> FALSE, body |-> NoCreds] :
          k \in {"badrequest", "transport"} }
    \cup { [kind |-> "response", status |-> st, json |-> FALSE, body |-> NoCreds] :
          st \in {200, 204, 500} }
    \cup { [kind |-> "response", status |-> st, json |-> TRUE, body |-> c] :
          st \in {200, 204, 500}, c \in CredSet }

NoResp == [kind |-> "none", status |-> 0, json |-> FALSE, body |-> NoCreds]

StatusOK == 200

\* requestCreds without the status check of lines 97-99.
requestCreds_noStatusCheck(r) ==
    IF r.kind = "badrequest" THEN [creds |-> NoCreds, err |-> "request"]
    ELSE IF r.kind = "transport" THEN [creds |-> NoCreds, err |-> "transport"]
    ELSE IF ~r.json THEN [creds |-> NoCreds, err |-> "decode"]
    ELSE [creds |-> r.body, err |-> "nil"]

\* requestCreds: the (creds, err) it returns for what the endpoint did.
requestCreds(r) ==
    IF r.kind = "badrequest" THEN [creds |-> NoCreds, err |-> "request"]
    ELSE IF r.kind = "transport" THEN [creds |-> NoCreds, err |-> "transport"]
    ELSE IF r.status # StatusOK THEN [creds |-> NoCreds, err |-> "status"]
    ELSE IF ~r.json THEN [creds |-> NoCreds, err |-> "decode"]
    ELSE [creds |-> r.body, err |-> "nil"]

\* uploadFileToS3's UploadInput and the session it uploads with.
UploadInput(c, off) ==
    [bucket |-> c.bucketName, key |-> c.key, region |-> c.region,
     accessKey |-> c.accessKey, secretKey |-> c.secretKey,
     sessionToken |-> c.sessionToken, offset |-> off]

----------------------------------------------------------------------------
Init ==
    /\ pc = "create"
    /\ tree \in Trees
    /\ order = WalkOrder(tree)
    /\ idx = 1
    /\ cur = NoCur
    /\ openFiles = {}
    /\ opens = [p \in FilePaths |-> 0]
    /\ closes = [p \in FilePaths |-> 0]
    /\ dir = [opens |-> 0, closes |-> 0]
    /\ tw = [made |-> FALSE, err |-> "nil", nb |-> 0, closes |-> 0, closeErr |-> "unset"]
    /\ gz = [made |-> FALSE, err |-> FALSE, wroteHeader |-> FALSE, closes |-> 0,
             closeErr |-> "unset"]
    /\ sink = <<>>
    /\ fileOff = 0
    /\ dtErr = "unset"
    /\ resp = NoResp
    /\ creds = NoCreds
    /\ stageErr = [s \in {Stages[i] : i \in 1..Len(Stages)} |-> "unset"]
    /\ log = <<>>
    /\ uploadCalls = <<>>
    /\ s3Calls = <<>>
    /\ exitCode = -1

walkVars == <<tree, order>>
mainVars == <<resp, creds, uploadCalls, s3Calls>>
fileVars == <<openFiles, opens, closes>>

\* klog.Fatalln: the process ends here; nothing deferred runs.
Fatal(stage, err) ==
    /\ stageErr' = [stageErr EXCEPT ![stage] = err]
    /\ exitCode' = FatalStatus
    /\ pc' = "exited"

\* main, lines 193-200: os.Create(tmpTar) and the check of its error.
MainCreate ==
    /\ pc = "create"
    /\ log' = Append(log, "create")
    /\ \E ok \in BOOLEAN :
          IF ok
          THEN /\ stageErr' = [stageErr EXCEPT !["create"] = "nil"]
               /\ pc' = "dt_open"
               /\ UNCHANGED exitCode
          ELSE Fatal("create", "create")
    /\ sink' = <<>>
    /\ fileOff' = 0
    /\ UNCHANGED <<walkVars, mainVars, fileVars, idx, cur, dir, tw, gz, dtErr>>

\* The deferred calls with the two writers' defers written in the other order.
DeferOrder_gzipFirst == <<"dt_gzclose", "dt_tarclose", "dt_dirclose">>

\* The deferred calls of dirToTar in the order they run at its return: last
\* deferred first.
DeferOrder == <<"dt_tarclose", "dt_gzclose", "dt_dirclose">>

FirstDefer == DeferOrder[1]

AfterDefer(p) ==
    LET i == CHOOSE k \in 1..Len(DeferOrder) : DeferOrder[k] = p
    IN  IF i < Len(DeferOrder) THEN DeferOrder[i + 1] ELSE "dt_ret"

\* dirToTar, lines 126-138: open the directory, create the two writers.
DtOpenDir ==
    /\ pc = "dt_open"
    /\ log' = Append(log, "archive")
    /\ \E ok \in BOOLEAN :
          IF ok
          THEN /\ dir' = [dir EXCEPT !.opens = @ + 1]
               /\ gz' = [gz EXCEPT !.made = TRUE]
               /\ tw' = [tw EXCEPT !.made = TRUE]
               /\ cur' = NoCur
               /\ pc' = "walk"
          ELSE /\ cur' = [NoCur EXCEPT !.err = "opendir"]
               /\ pc' = "dt_ret"
               /\ UNCHANGED <<dir, gz, tw>>
    /\ idx' = 1
    /\ UNCHANGED <<walkVars, mainVars, fileVars, sink, fileOff, dtErr, stageErr, exitCode>>

\* The walk function without the directory check of lines 145-148.
VisitNode_noDirSkip(n) ==
    IF ~Rel(dirPath, FullPath(n)).ok THEN "skip" ELSE "open"

\* The walk function's answer for a node it is called for without an error
\* and before it opens anything: "skip" (return nil) or "open".
VisitNode(n) ==
    IF n.isDir THEN "skip"
    ELSE IF ~Rel(dirPath, FullPath(n)).ok THEN "skip"
    ELSE "open"

\* filepath.Walk calls the walk function for the next node, lines 140-154.
\* werr: Walk could not lstat the node or read the directory.
WalkVisit ==
    /\ pc = "walk"
    /\ idx <= Len(order)
    /\ \E werr \in BOOLEAN :
          IF werr
          THEN /\ cur' = [NoCur EXCEPT !.err = "walk"]
               /\ pc' = FirstDefer
               /\ UNCHANGED idx
          ELSE IF VisitNode(order[idx]) = "skip"
          THEN /\ idx' = idx + 1
               /\ cur' = NoCur
               /\ UNCHANGED pc
          ELSE /\ cur' = [NoCur EXCEPT !.relPath = Rel(dirPath, FullPath(order[idx])).path]
               /\ pc' = "cb_open"
               /\ UNCHANGED idx
    /\ UNCHANGED <<walkVars, mainVars, fileVars, dir, tw, gz, sink, fileOff, dtErr,
                   stageErr, log, exitCode>>

\* filepath.Walk returns nil after the last node, lines 184-186.
WalkEnd ==
    /\ pc = "walk"
    /\ idx > Len(order)
    /\ cur' = NoCur
    /\ pc' = FirstDefer
    /\ UNCHANGED <<walkVars, mainVars, fileVars, idx, dir, tw, gz, sink, fileOff, dtErr,
                   stageErr, log, exitCode>>

\* Lines 156-169: os.Open(fullPath); the header takes info.Size(), the size
\* the walk's lstat saw.
CbOpen ==
    /\ pc = "cb_open"
    /\ \E ok \in BOOLEAN, size \in 0..MaxSize :
          IF ok
          THEN /\ openFiles' = openFiles \cup {cur.relPath}
               /\ opens' = [opens EXCEPT ![cur.relPath] = @ + 1]
               /\ cur' = [cur EXCEPT !.size = size]
               /\ pc' = "cb_header"
               /\ UNCHANGED idx
          ELSE /\ cur' = [cur EXCEPT !.err = "open"]
               /\ pc' = FirstDefer
               /\ UNCHANGED <<openFiles, opens, idx>>
    /\ UNCHANGED <<walkVars, mainVars, closes, dir, tw, gz, sink, fileOff, dtErr,
                   stageErr, log, exitCode>>

\* Lines 171-175: tarWriter.WriteHeader(header).
CbWriteHeader ==
    /\ pc = "cb_header"
    /\ \E okPad \in BOOLEAN, okHdr \in BOOLEAN :
          LET r == TarWriteHeader(tw, gz, sink, cur.relPath, cur.size, okPad, okHdr)
          IN  /\ tw' = r.tw
              /\ gz' = r.gz
              /\ sink' = r.sink
              /\ fileOff' = Len(r.sink)
              /\ cur' = [cur EXCEPT !.err = r.err]
              /\ pc' = IF r.err = "nil" THEN "cb_copy" ELSE "cb_ret"
    /\ UNCHANGED <<walkVars, mainVars, fileVars, idx, dir, dtErr, stageErr, log, exitCode>>

\* Lines 177-181: one round of io.Copy(tarWriter, file): the file gives a
\* byte, which goes to the tar writer, or gives EOF, or fails to be read.
CbCopy ==
    /\ pc = "cb_copy"
    /\ \E rd \in {"byte", "eof", "err"}, ok \in BOOLEAN :
          CASE rd = "eof" ->
                 /\ pc' = "cb_ret"
                 /\ UNCHANGED <<cur, tw, gz, sink, fileOff>>
            [] rd = "err" ->
                 /\ cur' = [cur EXCEPT !.err = "read"]
                 /\ pc' = "cb_ret"
                 /\ UNCHANGED <<tw, gz, sink, fileOff>>
            [] rd = "byte" ->
                 /\ cur.read < MaxRead
                 /\ LET r == TarWrite(tw, gz, sink, cur.relPath, ok)
                    IN  /\ tw' = r.tw
                        /\ gz' = r.gz
                        /\ sink' = r.sink
                        /\ fileOff' = Len(r.sink)
                        /\ cur' = [cur EXCEPT !.read = @ + 1, !.err = r.err]
                        /\ pc' = IF r.err = "nil" THEN "cb_copy" ELSE "cb_ret"
    /\ UNCHANGED <<walkVars, mainVars, fileVars, idx, dir, dtErr, stageErr, log, exitCode>>

\* The walk function's return without the deferred file.Close() of line 161.
CbReturn_noClose ==
    /\ pc = "cb_ret"
    /\ IF cur.err = "nil"
       THEN /\ idx' = idx + 1
            /\ pc' = "walk"
       ELSE /\ pc' = FirstDefer
            /\ UNCHANGED idx
    /\ UNCHANGED <<walkVars, mainVars, fileVars, cur, dir, tw, gz, sink, fileOff, dtErr,
                   stageErr, log, exitCode>>

\* The walk function returns, lines 161 and 174-183: the deferred file.Close()
\* runs; an error ends the walk, nil lets it go on to the next node.
CbReturn ==
    /\ pc = "cb_ret"
    /\ openFiles' = openFiles \ {cur.relPath}
    /\ closes' = [closes EXCEPT ![cur.relPath] = @ + 1]
    /\ IF cur.err = "nil"
       THEN /\ idx' = idx + 1
            /\ pc' = "walk"
       ELSE /\ pc' = FirstDefer
            /\ UNCHANGED idx
    /\ UNCHANGED <<walkVars, mainVars, opens, cur, dir, tw, gz, sink, fileOff, dtErr,
                   stageErr, log, exitCode>>

\* Line 138, deferred: tarWriter.Close(); its error is dropped.
DtTarClose ==
    /\ pc = "dt_tarclose"
    /\ \E okPad \in BOOLEAN, okEoa \in BOOLEAN :
          LET r == TarClose(tw, gz, sink, okPad, okEoa)
          IN  /\ tw' = [r.tw EXCEPT !.closes = @ + 1, !.closeErr = r.err]
              /\ gz' = r.gz
              /\ sink' = r.sink
              /\ fileOff' = Len(r.sink)
    /\ pc' = AfterDefer(pc)
    /\ UNCHANGED <<walkVars, mainVars, fileVars, idx, cur, dir, dtErr, stageErr, log,
                   exitCode>>

\* Line 135, deferred: gzipWriter.Close(); its error is dropped.
DtGzClose ==
    /\ pc = "dt_gzclose"
    /\ \E okHdr \in BOOLEAN, okTrl \in BOOLEAN :
          LET r == GzClose(gz, sink, okHdr, okTrl)
          IN  /\ gz' = [r.gz EXCEPT !.closes = @ + 1, !.closeErr = r.err]
              /\ sink' = r.sink
              /\ fileOff' = Len(r.sink)
    /\ pc' = AfterDefer(pc)
    /\ UNCHANGED <<walkVars, mainVars, fileVars, idx, cur, dir, tw, dtErr, stageErr, log,
                   exitCode>>

\* dirToTar's return without the deferred dir.Close() of line 131.
DtDirClose_leak ==
    /\ pc = "dt_dirclose"
    /\ pc' = AfterDefer(pc)
    /\ UNCHANGED <<walkVars, mainVars, fileVars, idx, cur, dir, tw, gz, sink, fileOff,
                   dtErr, stageErr, log, exitCode>>

\* Line 131, deferred: dir.Close().
DtDirClose ==
    /\ pc = "dt_dirclose"
    /\ dir' = [dir EXCEPT !.closes = @ + 1]
    /\ pc' = AfterDefer(pc)
    /\ UNCHANGED <<walkVars, mainVars, fileVars, idx, cur, tw, gz, sink, fileOff, dtErr,
                   stageErr, log, exitCode>>

\* dirToTar hands the walk's error (line 186) or the directory's open error
\* (line 129) to main.
DtReturn ==
    /\ pc = "dt_ret"
    /\ dtErr' = cur.err
    /\ pc' = "archived"
    /\ UNCHANGED <<walkVars, mainVars, fileVars, idx, cur, dir, tw, gz, sink, fileOff,
                   stageErr, log, exitCode>>

\* main archiving again when dirToTar failed, instead of klog.Fatalln.
MainCheckArchive_retry ==
    /\ pc = "archived"
    /\ stageErr' = [stageErr EXCEPT !["archive"] = dtErr]
    /\ pc' = IF dtErr = "nil" THEN "creds" ELSE "dt_open"
    /\ UNCHANGED <<walkVars, mainVars, fileVars, idx, cur, dir, tw, gz, sink, fileOff,
                   dtErr, log, exitCode>>

\* main, lines 203-208: the check of dirToTar's error.
MainCheckArchive ==
    /\ pc = "archived"
    /\ IF dtErr = "nil"
       THEN /\ stageErr' = [stageErr EXCEPT !["archive"] = "nil"]
            /\ pc' = "creds"
            /\ UNCHANGED exitCode
       ELSE Fatal("archive", dtErr)
    /\ UNCHANGED <<walkVars, mainVars, fileVars, idx, cur, dir, tw, gz, sink, fileOff,
                   dtErr, log>>

\* main, lines 210-216: requestCreds() and the check of its error.
MainRequestCreds ==
    /\ pc = "creds"
    /\ log' = Append(log, "creds")
    /\ \E r \in Responses :
          LET got == requestCreds(r)
          IN  /\ resp' = r
              /\ creds' = got.creds
              /\ IF got.err = "nil"
                 THEN /\ stageErr' = [stageErr EXCEPT !["creds"] = "nil"]
                      /\ pc' = "seek"
                      /\ UNCHANGED exitCode
                 ELSE Fatal("creds", got.err)
    /\ UNCHANGED <<walkVars, fileVars, idx, cur, dir, tw, gz, sink, fileOff, dtErr,
                   uploadCalls, s3Calls>>

\* main without the rewind: the seek leaves the offset where it is.
MainSeek_noRewind ==
    /\ pc = "seek"
    /\ log' = Append(log, "seek")
    /\ \E ok \in BOOLEAN :
          IF ok
          THEN /\ stageErr' = [stageErr EXCEPT !["seek"] = "nil"]
               /\ pc' = "upload"
               /\ UNCHANGED exitCode
          ELSE Fatal("seek", "seek")
    /\ UNCHANGED <<walkVars, mainVars, fileVars, idx, cur, dir, tw, gz, sink, fileOff,
                   dtErr>>

\* main, lines 218-224: f.Seek(0, io.SeekStart) and the check of its error.
MainSeek ==
    /\ pc = "seek"
    /\ log' = Append(log, "seek")
    /\ \E ok \in BOOLEAN :
          IF ok
          THEN /\ fileOff' = 0
               /\ stageErr' = [stageErr EXCEPT !["seek"] = "nil"]
               /\ pc' = "upload"
               /\ UNCHANGED exitCode
          ELSE /\ Fatal("seek", "seek")
               /\ UNCHANGED fileOff
    /\ UNCHANGED <<walkVars, mainVars, fileVars, idx, cur, dir, tw, gz, sink, dtErr>>

\* main, lines 226-232, with uploadFile (42-49) and uploadFileToS3 (110-116):
\* the session may fail to be made, and then nothing is sent; the upload
\* reads f from its offset to its end.
MainUpload ==
    /\ pc = "upload"
    /\ log' = Append(log, "upload")
    /\ uploadCalls' = Append(uploadCalls, [creds |-> creds, offset |-> fileOff])
    /\ \E sessOK \in BOOLEAN, upOK \in BOOLEAN :
          IF ~sessOK
          THEN /\ Fatal("upload", "session")
               /\ UNCHANGED <<s3Calls, fileOff>>
          ELSE /\ s3Calls' = Append(s3Calls, UploadInput(creds, fileOff))
               /\ IF upOK
                  THEN /\ fileOff' = Len(sink)
                       /\ stageErr' = [stageErr EXCEPT !["upload"] = "nil"]
                       /\ exitCode' = 0
                       /\ pc' = "exited"
                  ELSE /\ Fatal("upload", "upload")
                       /\ UNCHANGED fileOff
    /\ UNCHANGED <<walkVars, fileVars, idx, cur, dir, tw, gz, sink, dtErr, resp, creds>>

Next ==
    \/ MainCreate
    \/ DtOpenDir
    \/ WalkVisit
    \/ WalkEnd
    \/ CbOpen
    \/ CbWriteHeader
    \/ CbCopy
    \/ CbReturn
    \/ DtTarClose
    \/ DtGzClose
    \/ DtDirClose
    \/ DtReturn
    \/ MainCheckArchive
    \/ MainRequestCreds
    \/ MainSeek
    \/ MainUpload

Spec == Init /\ [][Next]_vars

----------------------------------------------------------------------------
\* Reading the sink back: what an extractor finds in it.

Returned == dtErr # "unset"

Started(stage) == \E i \in 1..Len(log) : log[i] = stage

Failed(stage) == stageErr[stage] \notin {"unset", "nil"}

IsPrefix(a, b) == Len(a) <= Len(b) /\ SubSeq(b, 1, Len(a)) = a

HasToken(s, tok) == \E i \in 1..Len(s) : s[i] = tok

\* The tar stream inside the gzip framing, when the framing is whole.
GzWhole(s) == Len(s) >= 2 /\ s[1] = GzHeader /\ s[Len(s)] = GzTrailer

TarStream(s) == SubSeq(s, 2, Len(s) - 1)

\* The entries of a tar stream from position i on: each a header followed by
\* as many bytes as it announces, the end-of-archive marker last.
RECURSIVE ParseTar(_, _)
ParseTar(s, i) ==
    IF i > Len(s) THEN [ok |-> FALSE, names |-> <<>>]
    ELSE IF s[i].t = "eoa" THEN [ok |-> i = Len(s), names |-> <<>>]
    ELSE IF s[i].t = "hdr"
    THEN LET n == s[i].size
             rest == ParseTar(s, i + n + 1)
         IN  IF i + n <= Len(s) /\ \A k \in (i + 1)..(i + n) : s[k] = ByteTok(s[i].name)
             THEN [ok |-> rest.ok, names |-> <<s[i].name>> \o rest.names]
             ELSE [ok |-> FALSE, names |-> <<>>]
    ELSE [ok |-> FALSE, names |-> <<>>]

WellFormed(s) == GzWhole(s) /\ ParseTar(TarStream(s), 1).ok

EntryNames(s) == ParseTar(TarStream(s), 1).names

\* The relative paths of the tree's regular files, in walk order.
RECURSIVE FilesOf(_)
FilesOf(ns) ==
    IF ns = <<>> THEN <<>>
    ELSE (IF Head(ns).isDir THEN <<>> ELSE <<Head(ns).path>>) \o FilesOf(Tail(ns))

NoFiles == \A n \in tree : n.isDir

EmptyArchive == <<GzHeader, EndOfArchive, GzTrailer>>

InCallback == pc \in {"cb_open", "cb_header", "cb_copy", "cb_ret"}

ResponseGood(r) == r.kind = "response" /\ r.status = StatusOK /\ r.json

----------------------------------------------------------------------------
\* C1: main starts its stages in the fixed order create, archive, creds,
\* seek, upload, each at most once; a stage starts only when the one before
\* has returned without error; requestCreds starts only after dirToTar has
\* returned with both writers closed and no source file open; the rewind
\* starts only after requestCreds has returned.
C1_StagesInOrder ==
    /\ IsPrefix(log, Stages)
    /\ \A i \in 2..Len(log) : stageErr[Stages[i - 1]] = "nil"
    /\ Started("archive") /\ ~Returned => ~Started("creds")
    /\ Started("creds") =>
          /\ Returned
          /\ tw.closes = 1 /\ gz.closes = 1 /\ dir.closes = 1
          /\ openFiles = {}
    /\ Started("seek") => resp # NoResp /\ creds = resp.body
    /\ Started("upload") => stageErr["seek"] = "nil"

C1_Witness == log = Stages /\ exitCode = 0 /\ HasToken(sink, ByteTok(<<"a">>))

\* C2: a stage that fails ends the process with a non-zero status and no
\* later stage is started; after a failed dirToTar nothing is uploaded; a
\* non-200 status, a transport error or an undecodable body makes
\* requestCreds fail and nothing is uploaded.
C2_FailureIsFatal ==
    /\ \A i \in 1..Len(Stages) :
          Failed(Stages[i]) =>
             /\ pc = "exited"
             /\ exitCode # 0
             /\ Len(log) = i
    /\ Returned /\ dtErr # "nil" =>
          /\ ~Started("creds")
          /\ uploadCalls = <<>> /\ s3Calls = <<>>
          /\ pc = "exited" => Failed("archive")
    /\ resp # NoResp /\ ~ResponseGood(resp) =>
          /\ Failed("creds")
          /\ ~Started("seek")
          /\ uploadCalls = <<>> /\ s3Calls = <<>>
    /\ pc = "exited" /\ exitCode = 0 => \A i \in 1..Len(Stages) : stageErr[Stages[i]] = "nil"

C2_Witness ==
    /\ pc = "exited"
    /\ resp.kind = "response" /\ resp.status = 500 /\ resp.json
    /\ exitCode = FatalStatus

\* C3 as stated: whenever the endpoint answered 200 with a decodable body,
\* the upload is invoked exactly once, at offset 0, with exactly the
\* response's values, and never at the end of the written archive.
C3_UploadOnceAfter200 ==
    pc = "exited" /\ ResponseGood(resp) =>
       /\ Len(uploadCalls) = 1
       /\ uploadCalls[1] = [creds |-> resp.body, offset |-> 0]
       /\ \A i \in 1..Len(s3Calls) : s3Calls[i] = UploadInput(resp.body, 0)

\* C3 amended: whenever the endpoint answered 200 with a decodable body and
\* the rewind succeeded, creds.uploadFile is invoked exactly once, at offset 0
\* and with exactly the response's values; s3manager's Upload is invoked at
\* most once, with exactly the response's bucket, key, region and access,
\* secret and session values; no upload is ever invoked at an offset other
\* than 0, so none at the end of a sink that holds anything; when the rewind
\* fails there is no upload.
C3_UploadOnceAfterRewind ==
    /\ pc = "exited" /\ ResponseGood(resp) /\ stageErr["seek"] = "nil" =>
          /\ Len(uploadCalls) = 1
          /\ uploadCalls[1] = [creds |-> resp.body, offset |-> 0]
    /\ Len(uploadCalls) <= 1 /\ Len(s3Calls) <= Len(uploadCalls)
    /\ \A i \in 1..Len(uploadCalls) :
          /\ uploadCalls[i].offset = 0
          /\ sink # <<>> => uploadCalls[i].offset # Len(sink)
          /\ ResponseGood(resp) /\ uploadCalls[i].creds = resp.body
    /\ \A i \in 1..Len(s3Calls) : s3Calls[i] = UploadInput(resp.body, 0)
    /\ Failed("seek") => uploadCalls = <<>>

C3_Witness ==
    /\ pc = "exited"
    /\ Len(s3Calls) = 1 /\ s3Calls[1].bucket = "b2" /\ s3Calls[1].key = "k2"
    /\ Len(sink) > 2

\* C4 as stated: whenever dirToTar returns nil the sink holds a finalized
\* archive whose entries are exactly the tree's regular files, one entry per
\* file under its relative path, each with as many bytes as its header says,
\* and none for a directory; also when a file's size changed after the lstat.
\* (Stated for the runs in which every write to the sink succeeded.)
C4_SuccessMeansCompleteArchive ==
    Returned /\ dtErr = "nil" /\ ~gz.err =>
       /\ WellFormed(sink)
       /\ EntryNames(sink) = FilesOf(order)

\* C5 as stated: when a source file's open or read fails, dirToTar fails and
\* the sink holds no well-formed archive ended by the tar end-of-archive
\* marker and the gzip trailer.
C5_NoArchiveAfterUnreadable ==
    Returned /\ cur.err \in {"open", "read"} =>
       /\ dtErr # "nil"
       /\ ~WellFormed(sink)

\* C6 as stated: a read error on a source file, and a write error on the
\* sink or either writer (header, content, finalization), ends the walk at
\* once and makes dirToTar return a non-nil error.
C6_AnyErrorFailsDirToTar ==
    /\ cur.err # "nil" => pc \notin {"walk", "cb_open", "cb_header", "cb_copy"}
    /\ Returned /\ (cur.err = "read" \/ gz.err \/ tw.closeErr = "write"
                    \/ gz.closeErr = "write") => dtErr # "nil"

\* C7 as stated: on every exit path after the writers are created the tar
\* writer is finalized, its end-of-archive marker written, then the gzip
\* writer is finalized, then dirToTar returns.
C7_MarkerOnEveryExit ==
    /\ gz.closes <= tw.closes
    /\ Returned /\ tw.made =>
          /\ tw.closes = 1 /\ gz.closes = 1
          /\ HasToken(sink, EndOfArchive)

\* C7 amended: on every exit path after the writers are created
\* tarWriter.Close() is called first, then gzipWriter.Close(), and only then
\* dirToTar returns; the gzip writer is never closed before the tar writer;
\* no header or content is written once either is closed; the end-of-archive
\* marker is written exactly when tarWriter.Close() returns nil (no error
\* pending, the current entry complete, the write through gzip succeeding),
\* and nothing but the gzip trailer follows it.
C7_CloseOrder ==
    /\ gz.closes <= tw.closes /\ tw.closes <= 1
    /\ Returned /\ tw.made => tw.closes = 1 /\ gz.closes = 1
    /\ (pc = "walk" \/ InCallback) => tw.closes = 0 /\ gz.closes = 0
    /\ tw.closes = 0 => ~HasToken(sink, EndOfArchive)
    /\ gz.closes = 0 => ~HasToken(sink, GzTrailer)
    /\ tw.closes = 1 => (HasToken(sink, EndOfArchive) <=> tw.closeErr = "nil")
    /\ \A i \in 1..Len(sink) :
          /\ sink[i] = EndOfArchive => \A k \in (i + 1)..Len(sink) : sink[k] = GzTrailer
          /\ sink[i] = GzTrailer => i = Len(sink)

C7_Witness ==
    /\ Returned /\ tw.made
    /\ tw.closeErr = "missed" /\ gz.closeErr = "nil"
    /\ ~HasToken(sink, EndOfArchive) /\ HasToken(sink, GzTrailer)

\* C8: every source file is opened at most once and closed as often as it
\* was opened; when dirToTar has returned no source file is open, and the tar
\* writer, the gzip writer and the directory handle, where they were
\* acquired, have each been released exactly once.
C8_HandlesReleasedOnce ==
    /\ \A p \in FilePaths : closes[p] <= opens[p] /\ opens[p] <= 1
    /\ openFiles = {p \in FilePaths : opens[p] > closes[p]}
    /\ dir.closes <= dir.opens /\ dir.opens <= 1
    /\ tw.closes <= 1 /\ gz.closes <= 1
    /\ Returned =>
          /\ openFiles = {}
          /\ \A p \in FilePaths : closes[p] = opens[p]
          /\ dir.closes = dir.opens
          /\ tw.closes = (IF tw.made THEN 1 ELSE 0)
          /\ gz.closes = (IF gz.made THEN 1 ELSE 0)
          /\ dir.opens = (IF tw.made THEN 1 ELSE 0)

C8_Witness ==
    /\ Returned /\ dtErr = "write"
    /\ opens[<<"a">>] = 1 /\ closes[<<"a">>] = 1
    /\ dir.closes = 1 /\ tw.closes = 1 /\ gz.closes = 1

\* C9: for a tree without regular files, dirToTar fails only when the
\* directory cannot be opened or walked; otherwise it returns nil and, the
\* sink's writes succeeding, leaves the finalized archive without entries;
\* main then goes on to requestCreds, and when the process has ended it has
\* uploaded that archive from offset 0 and exited with status 0 unless the
\* sink's creation, the directory, the credential fetch, the rewind or the
\* upload itself failed.
C9_EmptyTreeProceeds ==
    NoFiles =>
       /\ dtErr \in {"unset", "nil", "opendir", "walk"}
       /\ opens = [p \in FilePaths |-> 0]
       /\ Returned /\ dtErr = "nil" /\ ~gz.err => sink = EmptyArchive
       /\ Returned /\ cur.err \notin {"opendir", "walk"} => dtErr = "nil"
       /\ pc = "exited" /\ dtErr = "nil" => Started("creds")
       /\ pc = "exited" /\ exitCode # 0 =>
             \/ stageErr["create"] = "create"
             \/ stageErr["archive"] \in {"opendir", "walk"}
             \/ stageErr["creds"] \in {"request", "transport", "status", "decode"}
             \/ stageErr["seek"] = "seek"
             \/ stageErr["upload"] \in {"session", "upload"}
       /\ pc = "exited" /\ exitCode = 0 =>
             /\ log = Stages
             /\ s3Calls = <<UploadInput(resp.body, 0)>>
             /\ ~gz.err => sink = EmptyArchive

C9_Witness ==
    /\ NoFiles /\ [path |-> <<"sub">>, isDir |-> TRUE] \in tree
    /\ pc = "exited" /\ exitCode = 0
    /\ sink = EmptyArchive
    /\ Len(s3Calls) = 1

\* C10: at every point of the walk at most one source file is open: none
\* between two calls of the walk function, and inside a call only the file
\* of the node the call is for.
C10_AtMostOneOpen ==
    /\ Cardinality(openFiles) <= 1
    /\ pc \in {"cb_header", "cb_copy", "cb_ret"} => openFiles = {cur.relPath}
    /\ pc \notin {"cb_header", "cb_copy", "cb_ret"} => openFiles = {}

C10_Witness ==
    /\ pc = "cb_copy"
    /\ openFiles = {<<"sub", "b">>}
    /\ opens[<<"a">>] = 1 /\ closes[<<"a">>] = 1

====
